---- MODULE Spec2Model ----
\* Model of hepcrawl/spiders/pos_spider.py (POSSpider): the chained callbacks
\* parse -> parse_conference_paper -> parse_conference_proceedings and the
\* helpers that build the two records.
\*
\* Representation.
\*   string      a sequence of tokens (each token a run of characters); the
\*               separators "/", "(" and ")" are tokens of their own
\*   optional    Python None is {} and a value v is {v}
\*   html page   a sequence of elements [tag, text, href]; text is the first
\*               text node of the element (<<>> when it has none), href is
\*               optional; the empty page is <<>>
\*   xml record  [identifier, date, language, creators]
\*   meta        a function from the keys that are set to their values
EXTENDS Integers, Sequences, FiniteSets, TLC

\* ---------------------------------------------------------------- bounds
MaxRecords == 2
MaxPageLen == 2
MaxCreators == 2

\* ------------------------------------------------------- python helpers
NONE == {}
Some(v) == {v}
Val(o) == CHOOSE v \in o : TRUE

\* list.extract_first(): the first element, or None
extract_first(list) == IF list = <<>> THEN NONE ELSE Some(Head(list))

\* "{0}{1}".format(a, b) with b optional: None is rendered as "None"
Format(a, b) == a \o (IF b = NONE THEN <<"None">> ELSE Val(b))

\* str.split(sep) / re.split('[...]', s): the pieces between separator tokens
RECURSIVE split(_, _)
split(s, seps) ==
    IF \A i \in 1..Len(s) : s[i] \notin seps
    THEN <<s>>
    ELSE LET i == CHOOSE k \in 1..Len(s) :
                      /\ s[k] \in seps
                      /\ \A j \in 1..(k - 1) : s[j] \notin seps
         IN <<SubSeq(s, 1, i - 1)>> \o split(SubSeq(s, i + 1, Len(s)), seps)

\* ''.join(list)
RECURSIVE join(_)
join(list) == IF list = <<>> THEN <<>> ELSE Head(list) \o join(Tail(list))

\* ------------------------------------------------------------- outcomes
OK == "ok"
AttributeError == "AttributeError"
IndexError == "IndexError"
TypeError == "TypeError"
KeyError == "KeyError"
DateError == "DateError"
PdfUrlNotFound == "PoSExtractionException: Unable to get the conference paper pdf url"
EmptyPaperPage == "PoSExtractionException: PoS conference paper page was empty"

Ret(v) == [error |-> OK, val |-> Some(v)]
Raise(e) == [error |-> e, val |-> NONE]

\* --------------------------------------------------- module-level values
DEFAULT_BASE_URL == <<"https://pos.sissa.it">>
DEFAULT_BASE_CONFERENCE_PAPER_URL == DEFAULT_BASE_URL \o <<"/", "contribution?id=">>
DEFAULT_BASE_PROCEEDINGS_URL ==
    DEFAULT_BASE_URL \o <<"/", "cgi-bin", "/", "reader", "/", "conf.cgi?confid=">>

\* ------------------------------------------------------ spider instance
\* POSSpider.__init__: the instance attributes it assigns
init(source_file, base_conference_paper_url, base_proceedings_url) ==
    [source_file |-> source_file,
     BASE_CONFERENCE_PAPER_URL |-> base_conference_paper_url,
     BASE_PROCEEDINGS_URL |-> base_proceedings_url]

\* self.<name>: an attribute that was never assigned raises AttributeError
getattr(self, name) ==
    IF name \in DOMAIN self THEN Ret(self[name]) ELSE Raise(AttributeError)

\* the attribute names the request builders read
conference_paper_url_attr_assigned == "BASE_CONFERENCE_PAPER_URL"
conference_paper_url_attr == "base_conference_paper_url"
proceedings_url_attr == "base_proceedings_url"

\* ----------------------------------------------------------- html pages
\* contains(text(), 'pdf')
contains_pdf(text) == \E i \in 1..Len(text) : text[i] = "pdf"

\* "//a[contains(text(),'pdf')]/@href"
pdf_anchor_any_text(e) == e.tag = "a"
pdf_anchor(e) == contains_pdf(e.text)
\* "//a[not(contains(text(),'pdf'))]/@href"
not_pdf_anchor(e) == ~contains_pdf(e.text)

\* .../@href: the href values of the selected elements that have one
hrefs(elements) ==
    LET sel == SelectSeq(elements, LAMBDA e : e.href # NONE)
    IN [i \in 1..Len(sel) |-> Val(sel[i].href)]

pdf_hrefs(page) ==
    hrefs(SelectSeq(page, LAMBDA e : e.tag = "a" /\ pdf_anchor(e)))
not_pdf_hrefs(page) ==
    hrefs(SelectSeq(page, LAMBDA e : e.tag = "a" /\ not_pdf_anchor(e)))

\* urlparse.urljoin(base, url)
urljoin(base, url) ==
    IF url = <<>> THEN base
    ELSE IF Head(url) = "/" THEN <<Head(base)>> \o url
    ELSE LET slashes == {i \in 1..Len(base) : base[i] = "/"}
             last == IF slashes = {} THEN 1
                     ELSE CHOOSE i \in slashes : \A j \in slashes : j <= i
         IN SubSeq(base, 1, last) \o url

_get_conference_paper_pdf_url_unchecked(self, conference_paper_page_html) ==
    LET conference_paper_pdf_relative_url ==
            extract_first(pdf_hrefs(conference_paper_page_html))
        base == getattr(self, conference_paper_url_attr)
    IN IF base.error # OK THEN Raise(base.error)
       ELSE Ret(urljoin(Val(base.val),
                        IF conference_paper_pdf_relative_url = NONE
                        THEN <<"None">>
                        ELSE Val(conference_paper_pdf_relative_url)))

_get_conference_paper_pdf_url(self, conference_paper_page_html) ==
    LET conference_paper_pdf_relative_url ==
            extract_first(pdf_hrefs(conference_paper_page_html))
    IN IF conference_paper_pdf_relative_url = NONE
          \/ Val(conference_paper_pdf_relative_url) = <<>>
       THEN Raise(PdfUrlNotFound)
       ELSE LET base == getattr(self, conference_paper_url_attr)
            IN IF base.error # OK THEN Raise(base.error)
               ELSE Ret(urljoin(Val(base.val),
                                Val(conference_paper_pdf_relative_url)))

_get_proceedings_page_url(self, page_html) ==
    LET internal_url == extract_first(not_pdf_hrefs(page_html))
    IN IF internal_url = NONE THEN Raise(AttributeError)
       ELSE LET parts == split(Val(internal_url), {"/"})
            IN IF Len(parts) < 2 THEN Raise(IndexError)
               ELSE LET proceedings_internal_id == parts[2]
                        base == getattr(self, proceedings_url_attr)
                    IN IF base.error # OK THEN Raise(base.error)
                       ELSE Ret(Val(base.val) \o proceedings_internal_id)

\* ---------------------------------------------------- record normalizer
\* utils.get_first(iterable, default)
get_first(iterable, default) ==
    IF iterable = <<>> THEN default ELSE Head(iterable)

\* dateutils.create_valid_date(date): a validated ISO date, or a failure
ValidDates == {<<"2016", "-03-04">>}
create_valid_date(date) ==
    IF date # NONE /\ Val(date) \in ValidDates
    THEN Ret(Val(date)) ELSE Raise(DateError)

\* int(s) for the year strings of the model
int(s) == CASE s = "2016" -> 2016 [] OTHER -> 0

\* HEPLoader.add_value(field, value): a None value adds no field
add_value(record, field, value) ==
    IF value = NONE THEN record ELSE (field :> Val(value)) @@ record

_set_fft(path) == <<[path |-> path]>>

_get_language_unfiltered(selector) == extract_first(selector.language)

_get_language(selector) ==
    LET language == extract_first(selector.language)
    IN IF language # Some(<<"en">>) THEN language ELSE NONE

\* re.split('[()]', pos_ext_identifier)[n], n counted from 0
journal_part(pos_ext_identifier, n) ==
    IF pos_ext_identifier = NONE THEN Raise(TypeError)
    ELSE LET parts == split(Val(pos_ext_identifier), {"(", ")"})
         IN IF Len(parts) < n + 1 THEN Raise(IndexError) ELSE Ret(parts[n + 1])

_get_journal_title(pos_ext_identifier) == journal_part(pos_ext_identifier, 0)
_get_journal_volume(pos_ext_identifier) == journal_part(pos_ext_identifier, 1)
_get_journal_artid(pos_ext_identifier) == journal_part(pos_ext_identifier, 2)

_get_ext_systems_number(selector) ==
    <<[institute |-> "pos", value |-> extract_first(selector.identifier)]>>

_get_date(selector) ==
    LET full_date == extract_first(selector.date)
        date == create_valid_date(full_date)
    IN IF date.error # OK THEN Raise(date.error)
       ELSE Ret([date |-> Val(date.val), year |-> int(Head(Val(date.val)))])

\* the dictionary built for one creator element
auth_dict_of(creator) ==
    LET raw == ("raw_name" :> get_first(creator.names, <<>>))
    IN IF creator.affiliations = <<>> THEN raw
       ELSE raw @@ ("affiliations" :>
                [i \in 1..Len(creator.affiliations) |->
                    [value |-> creator.affiliations[i]]])

\* "if auth_dict:" - a dictionary is true when it has a key
truthy(auth_dict) == DOMAIN auth_dict # {}

RECURSIVE authors_of(_)
authors_of(creators) ==
    IF creators = <<>> THEN <<>>
    ELSE LET auth_dict == auth_dict_of(Head(creators))
         IN (IF truthy(auth_dict) THEN <<auth_dict>> ELSE <<>>)
            \o authors_of(Tail(creators))

_get_authors(selector) == authors_of(selector.creators)

build_conference_paper_item(xml_record, conference_paper_url, conference_paper_pdf_url) ==
    LET selector == xml_record
        dy == _get_date(selector)
        identifier == extract_first(selector.identifier)
        title == _get_journal_title(identifier)
        volume == _get_journal_volume(identifier)
        artid == _get_journal_artid(identifier)
    IN IF dy.error # OK THEN Raise(dy.error)
       ELSE IF title.error # OK THEN Raise(title.error)
       ELSE IF volume.error # OK THEN Raise(volume.error)
       ELSE IF artid.error # OK THEN Raise(artid.error)
       ELSE LET r0 == [date_published |-> Val(dy.val).date,
                       journal_year |-> Val(dy.val).year,
                       journal_title |-> Val(title.val),
                       journal_volume |-> Val(volume.val),
                       journal_artid |-> Val(artid.val),
                       external_system_numbers |->
                           _get_ext_systems_number(selector)]
                r1 == add_value(r0, "language", _get_language(selector))
                r2 == add_value(r1, "authors", Some(_get_authors(selector)))
                r3 == add_value(r2, "collections", Some(<<"conferencepaper">>))
                r4 == add_value(r3, "urls", Some(<<conference_paper_url>>))
                r5 == add_value(r4, "_fft",
                                Some(_set_fft(conference_paper_pdf_url)))
            IN Ret([record |-> r5, record_format |-> "hepcrawl"])

_get_proceedings_title(selector) == extract_first(selector.h1)

_get_proceedings_date_place(selector) == join(selector.conference_date)

build_conference_proceedings_item(proceedings_page_html, pos_id) ==
    LET selector == proceedings_page_html
        volume == _get_journal_volume(pos_id)
    IN IF volume.error # OK THEN Raise(volume.error)
       ELSE LET r0 == [collections |-> <<"proceeding">>]
                r1 == add_value(r0, "title", _get_proceedings_title(selector))
                r2 == add_value(r1, "subtitle",
                                Some(_get_proceedings_date_place(selector)))
                r3 == add_value(r2, "journal_title", Some(<<"PoS">>))
                r4 == add_value(r3, "journal_volume", volume.val)
            IN Ret([record |-> r4, record_format |-> "hepcrawl"])

\* ------------------------------------------------------------ callbacks
\* scrapy.Request(url, callback, meta)
Request(url, callback, meta) ==
    [kind |-> "request", callback |-> callback, url |-> url, meta |-> meta]
Item(collection, parsed_item) ==
    [kind |-> "item", collection |-> collection, parsed |-> parsed_item]

\* meta.get(key)
meta_get(meta, key) == IF key \in DOMAIN meta THEN Some(meta[key]) ELSE NONE
\* meta[key] = value
meta_set(meta, key, value) == (key :> value) @@ meta

\* "not meta.get('html_record')": the key is missing or the page is empty
falsy_page(page) == page = NONE \/ Val(page) = <<>>

get_conference_paper_page_request(self, xml_selector, meta) ==
    LET identifier == extract_first(xml_selector.identifier)
        base == getattr(self, conference_paper_url_attr)
    IN IF base.error # OK THEN Raise(base.error)
       ELSE LET conference_paper_url == Format(Val(base.val), identifier)
                meta1 == meta_set(meta, "xml_record", xml_selector)
            IN Ret(Request(conference_paper_url, "parse_conference_paper", meta1))

\* parse(): a generator over the records; the first exception ends it.
\* The value is the outcome of every record it reached, in order.
RECURSIVE parse(_, _)
parse(self, record_xml_selectors) ==
    IF record_xml_selectors = <<>> THEN <<>>
    ELSE LET r == get_conference_paper_page_request(
                      self, Head(record_xml_selectors), <<>>)
         IN IF r.error # OK THEN <<r>>
            ELSE <<r>> \o parse(self, Tail(record_xml_selectors))

\* the value is [error, val, meta]: meta is a dictionary changed in place
get_conference_proceedings_page_request(self, meta) ==
    IF falsy_page(meta_get(meta, "html_record"))
    THEN [error |-> EmptyPaperPage, val |-> NONE, meta |-> meta]
    ELSE LET proceedings_page_url ==
                 _get_proceedings_page_url(self, meta["html_record"])
         IN IF proceedings_page_url.error # OK
            THEN [error |-> proceedings_page_url.error, val |-> NONE,
                  meta |-> meta]
            ELSE LET pos_id == extract_first(meta["xml_record"].identifier)
                     meta1 == meta_set(meta, "pos_id", pos_id)
                 IN [error |-> OK,
                     val |-> Some(Request(Val(proceedings_page_url.val),
                                          "parse_conference_proceedings",
                                          meta1)),
                     meta |-> meta1]

\* parse_conference_paper(): the value is [out, error, meta], out being what
\* the generator yielded, in order, before it ended or raised
parse_conference_paper(self, response) ==
    LET xml_record == response.meta["xml_record"]
        conference_paper_pdf_url ==
            _get_conference_paper_pdf_url(self, response.body)
    IN IF conference_paper_pdf_url.error # OK
       THEN [out |-> <<>>, error |-> conference_paper_pdf_url.error,
             meta |-> response.meta]
       ELSE LET parsed_conference_paper ==
                    build_conference_paper_item(
                        xml_record, response.url,
                        Val(conference_paper_pdf_url.val))
            IN IF parsed_conference_paper.error # OK
               THEN [out |-> <<>>, error |-> parsed_conference_paper.error,
                     meta |-> response.meta]
               ELSE LET paper == Item("conferencepaper",
                                      Val(parsed_conference_paper.val))
                        meta1 == meta_set(response.meta, "html_record",
                                          response.body)
                        next == get_conference_proceedings_page_request(
                                    self, meta1)
                    IN IF next.error # OK
                       THEN [out |-> <<paper>>, error |-> next.error,
                             meta |-> next.meta]
                       ELSE [out |-> <<paper, Val(next.val)>>, error |-> OK,
                             meta |-> next.meta]

parse_conference_proceedings(self, request) ==
    IF "pos_id" \notin DOMAIN request.meta
    THEN [out |-> <<>>, error |-> KeyError, meta |-> request.meta]
    ELSE LET parsed_conference_proceedings ==
                 build_conference_proceedings_item(request.body,
                                                   request.meta["pos_id"])
         IN IF parsed_conference_proceedings.error # OK
            THEN [out |-> <<>>, error |-> parsed_conference_proceedings.error,
                  meta |-> request.meta]
            ELSE [out |-> <<Item("proceeding",
                                 Val(parsed_conference_proceedings.val))>>,
                  error |-> OK, meta |-> request.meta]

\* ---------------------------------------------------------------- inputs
CUSTOM_BASE_CONFERENCE_PAPER_URL == <<"http://mirror.example", "/", "paper?id=">>
CUSTOM_BASE_PROCEEDINGS_URL == <<"http://mirror.example", "/", "conf?id=">>
\* the base urls a spider is constructed with: the defaults, or its own
BaseUrls ==
    {<<DEFAULT_BASE_CONFERENCE_PAPER_URL, DEFAULT_BASE_PROCEEDINGS_URL>>,
     <<CUSTOM_BASE_CONFERENCE_PAPER_URL, CUSTOM_BASE_PROCEEDINGS_URL>>}

GoodIdentifier == <<"JHEP01", "(", "2016", ")", "001">>
FlatIdentifier == <<"JHEP01">>
Identifiers == {<<>>, <<GoodIdentifier>>, <<FlatIdentifier>>}
Dates == {<<<<"2016", "-03-04">>>>, <<<<"bogus">>>>}
Languages == {<<>>, <<<<"en">>>>, <<<<"fr">>>>}
Creators == [names : {<<>>, <<<<"A">>>>, <<<<"A">>, <<"B">>>>},
             affiliations : {<<>>, <<<<"U">>>>, <<<<"U">>, <<"V">>>>}]

SeqsUpTo(S, n) == UNION {[1..k -> S] : k \in 0..n}

\* the records of a crawled batch
ChainRecord(identifier, date) ==
    [identifier |-> identifier, date |-> date, language |-> <<<<"fr">>>>,
     creators |-> <<[names |-> <<<<"A">>>>, affiliations |-> <<<<"U">>>>]>>]
ChainRecords ==
    {ChainRecord(<<GoodIdentifier>>, <<<<"2016", "-03-04">>>>),
     ChainRecord(<<>>, <<<<"2016", "-03-04">>>>),
     ChainRecord(<<GoodIdentifier>>, <<<<"bogus">>>>)}
\* the records handed to the record normalizer
FnRecords ==
    [identifier : Identifiers, date : Dates, language : Languages,
     creators : SeqsUpTo(Creators, MaxCreators)]

PdfAnchor == [tag |-> "a", text |-> <<"pdf">>, href |-> Some(<<"/", "999", "/", "pdf">>)]
PdfAnchorNoHref == [tag |-> "a", text |-> <<"full", "pdf">>, href |-> NONE]
DetailsAnchor == [tag |-> "a", text |-> <<"details">>, href |-> Some(<<"/", "contrib", "/", "001">>)]
Paragraph == [tag |-> "p", text |-> <<"text">>, href |-> NONE]
PageElements == {PdfAnchor, PdfAnchorNoHref, DetailsAnchor, Paragraph}
PaperPages == SeqsUpTo(PageElements, MaxPageLen)

ProceedingsPages ==
    {[h1 |-> <<<<"Proceedings">>>>, conference_date |-> <<<<"Rome">>, <<"2016">>>>],
     [h1 |-> <<>>, conference_date |-> <<>>]}

\* the address of a response handed to parse_conference_paper by a caller
\* that did not go through a Request of the spider
DirectUrl == <<"https://pos.sissa.it", "/", "contribution?id=", "direct">>

\* ----------------------------------------------------------------- state
VARIABLES
    spider,     \* the attributes of the POSSpider instance
    source,     \* the records of the source file, in document order
    parsed,     \* parse() has run
    pc,         \* per record: the position of its chain
    meta,       \* per record: the meta dictionary of its chain
    body,       \* per record: the paper page handed to its chain, if any
    out,        \* per record: what its callbacks yielded, in order
    err,        \* per record: the exception that ended its chain, or OK
    fn_in,      \* the record handed to the record normalizer
    fn_out      \* the results of the normalizer functions applied so far

vars == <<spider, source, parsed, pc, meta, body, out, err, fn_in, fn_out>>
chain_vars == <<spider, source, parsed, pc, meta, body, out, err>>
fn_vars == <<fn_in, fn_out>>

Chains == 1..Len(source)

NoRecord == [identifier |-> <<>>, date |-> <<>>, language |-> <<>>,
             creators |-> <<>>]

InitChains ==
    /\ spider \in {init(<<"file://batch.xml">>, urls[1], urls[2]) :
                       urls \in BaseUrls}
    /\ source \in UNION {[1..n -> ChainRecords] : n \in 1..MaxRecords}
    /\ parsed = FALSE
    /\ pc = [c \in 1..Len(source) |-> "new"]
    /\ meta = [c \in 1..Len(source) |-> <<>>]
    /\ body = [c \in 1..Len(source) |-> NONE]
    /\ out = [c \in 1..Len(source) |-> <<>>]
    /\ err = [c \in 1..Len(source) |-> OK]

Init ==
    /\ InitChains
    /\ fn_in = NoRecord
    /\ fn_out = <<>>

\* the engine runs parse() on the source file: every record reached gets a
\* paper page request or ends the generator; the records after an exception
\* are never reached
Parse ==
    /\ ~parsed
    /\ LET rs == parse(spider, source)
       IN /\ pc' = [c \in Chains |->
                      IF c > Len(rs) THEN "unstarted"
                      ELSE IF rs[c].error = OK THEN "await_paper"
                      ELSE "aborted"]
          /\ err' = [c \in Chains |-> IF c > Len(rs) THEN OK ELSE rs[c].error]
          /\ out' = [c \in Chains |->
                      IF c <= Len(rs) /\ rs[c].error = OK
                      THEN <<Val(rs[c].val)>> ELSE <<>>]
          /\ meta' = [c \in Chains |->
                      IF c <= Len(rs) /\ rs[c].error = OK
                      THEN Val(rs[c].val).meta ELSE <<>>]
    /\ parsed' = TRUE
    /\ UNCHANGED <<spider, source, body, fn_vars>>

\* a paper page response reaches parse_conference_paper: for the request of
\* the chain, or handed over by a caller with the record in its meta
PaperPageResponse(c, page) ==
    /\ parsed
    /\ pc[c] \in {"await_paper", "unstarted"}
    /\ LET response ==
               IF pc[c] = "await_paper"
               THEN [url |-> out[c][1].url, body |-> page, meta |-> meta[c]]
               ELSE [url |-> DirectUrl, body |-> page,
                     meta |-> meta_set(<<>>, "xml_record", source[c])]
           r == parse_conference_paper(spider, response)
       IN /\ out' = [out EXCEPT ![c] = @ \o r.out]
          /\ err' = [err EXCEPT ![c] = r.error]
          /\ meta' = [meta EXCEPT ![c] = r.meta]
          /\ pc' = [pc EXCEPT ![c] =
                      IF r.error = OK THEN "await_proceedings" ELSE "aborted"]
    /\ body' = [body EXCEPT ![c] = Some(page)]
    /\ UNCHANGED <<spider, source, parsed, fn_vars>>

\* a proceedings page response reaches parse_conference_proceedings: for the
\* request of the chain, or handed over by a caller with a meta of its own
ProceedingsPageResponse(c, page, direct_meta) ==
    /\ parsed
    /\ pc[c] \in {"await_proceedings", "unstarted"}
    /\ LET request ==
               IF pc[c] = "await_proceedings"
               THEN [body |-> page, meta |-> meta[c]]
               ELSE [body |-> page, meta |-> direct_meta]
           r == parse_conference_proceedings(spider, request)
       IN /\ out' = [out EXCEPT ![c] = @ \o r.out]
          /\ err' = [err EXCEPT ![c] = r.error]
          /\ meta' = [meta EXCEPT ![c] = r.meta]
          /\ pc' = [pc EXCEPT ![c] = IF r.error = OK THEN "done" ELSE "aborted"]
    /\ UNCHANGED <<spider, source, parsed, body, fn_vars>>

DirectMetas(c) ==
    {<<>>, meta_set(<<>>, "pos_id", extract_first(source[c].identifier))}

PaperPage ==
    \E c \in Chains, page \in PaperPages : PaperPageResponse(c, page)

ProceedingsPage ==
    \E c \in Chains, page \in ProceedingsPages :
        \E m \in DirectMetas(c) : ProceedingsPageResponse(c, page, m)

Next == Parse \/ PaperPage \/ ProceedingsPage

Spec == Init /\ [][Next]_vars

\* ------------------------------------------- the normalizer, on its own
InitFn ==
    /\ spider = init(<<"file://batch.xml">>, DEFAULT_BASE_CONFERENCE_PAPER_URL,
                     DEFAULT_BASE_PROCEEDINGS_URL)
    /\ source = <<>>
    /\ parsed = TRUE
    /\ pc = <<>>
    /\ meta = <<>>
    /\ body = <<>>
    /\ out = <<>>
    /\ err = <<>>
    /\ fn_in \in FnRecords
    /\ fn_out = <<>>

Apply(name, result) ==
    /\ name \notin DOMAIN fn_out
    /\ fn_out' = (name :> result) @@ fn_out
    /\ UNCHANGED <<fn_in, chain_vars>>

GetLanguage == Apply("_get_language", _get_language(fn_in))
GetAuthors == Apply("_get_authors", _get_authors(fn_in))
BuildConferencePaperItem ==
    Apply("build_conference_paper_item",
          build_conference_paper_item(
              fn_in, DirectUrl,
              urljoin(DEFAULT_BASE_CONFERENCE_PAPER_URL, Val(PdfAnchor.href))))

NextFn == GetLanguage \/ GetAuthors \/ BuildConferencePaperItem

SpecFn == InitFn /\ [][NextFn]_vars

\* ------------------------------------------------------------ properties
Requests(c, callback) ==
    SelectSeq(out[c], LAMBDA e : e.kind = "request" /\ e.callback = callback)
Items(c, collection) ==
    SelectSeq(out[c], LAMBDA e : e.kind = "item" /\ e.collection = collection)

\* the page has a pdf link: an anchor with 'pdf' in its text and an href
HasPdfLink(page) ==
    \E i \in 1..Len(page) :
        /\ page[i].tag = "a" /\ contains_pdf(page[i].text)
        /\ page[i].href # NONE /\ page[i].href # Some(<<>>)
\* the page has no anchor with 'pdf' in its text
NoPdfAnchor(page) ==
    \A i \in 1..Len(page) : ~(page[i].tag = "a" /\ contains_pdf(page[i].text))
\* the page has no anchor without 'pdf' in its text
NoOtherAnchor(page) ==
    \A i \in 1..Len(page) : page[i].tag = "a" => contains_pdf(page[i].text)
\* the fields of the record parse: a valid date, a three-part identifier
FieldsParse(record) ==
    /\ record.date # <<>> /\ Head(record.date) \in ValidDates
    /\ record.identifier # <<>>
    /\ Len(split(Head(record.identifier), {"(", ")"})) >= 3
\* parse_conference_paper has run for the chain, on a resolvable page
RanOnResolvable(c) ==
    /\ body[c] # NONE
    /\ HasPdfLink(Val(body[c]))
    /\ FieldsParse(source[c])
\* parse() reaches a record when every record before it got its request
ReachedByParse(c) ==
    \A d \in 1..(c - 1) : Requests(d, "parse_conference_paper") # <<>>

\* C1: for every record with a resolvable paper page, parse_conference_paper
\* emits exactly one conference paper record, and emits it before the
\* proceedings page request of the chain.
C1_OnePaperRecordBeforeProceedingsFetch ==
    \A c \in Chains :
        RanOnResolvable(c) =>
            /\ Len(Items(c, "conferencepaper")) = 1
            /\ \A i, j \in 1..Len(out[c]) :
                   ( /\ out[c][i].kind = "item"
                     /\ out[c][i].collection = "conferencepaper"
                     /\ out[c][j].kind = "request"
                     /\ out[c][j].callback = "parse_conference_proceedings" )
                   => i < j

\* C2: a paper page with no anchor whose text contains 'pdf' ends the chain
\* with the pdf-link-not-found failure and with nothing emitted: no paper
\* record, no proceedings record, no proceedings page request.
C2_NoPdfAnchorEmitsNothing ==
    \A c \in Chains :
        (body[c] # NONE /\ NoPdfAnchor(Val(body[c]))) =>
            /\ err[c] = PdfUrlNotFound
            /\ pc[c] = "aborted"
            /\ Items(c, "conferencepaper") = <<>>
            /\ Items(c, "proceeding") = <<>>
            /\ Requests(c, "parse_conference_proceedings") = <<>>

C2_Witness ==
    \E c \in Chains :
        /\ body[c] # NONE /\ NoPdfAnchor(Val(body[c])) /\ Val(body[c]) # <<>>
        /\ err[c] = PdfUrlNotFound

\* C3: when the paper page is resolvable but has no anchor without 'pdf' in
\* its text, the chain keeps its emitted paper record, ends with a reported
\* error, and issues no proceedings page request and no proceedings record.
C3_PartialSuccessKeepsPaperRecord ==
    \A c \in Chains :
        (RanOnResolvable(c) /\ NoOtherAnchor(Val(body[c]))) =>
            /\ Len(Items(c, "conferencepaper")) = 1
            /\ err[c] # OK
            /\ pc[c] = "aborted"
            /\ Requests(c, "parse_conference_proceedings") = <<>>
            /\ Items(c, "proceeding") = <<>>

\* C4: for a resolvable paper page whose first anchor without 'pdf' in its
\* text is <a href="/contrib/001">details</a>, the chain requests the
\* proceedings page at base_proceedings_url + "001".
C4_ProceedingsUrlFromSecondSegment ==
    \A c \in Chains :
        ( /\ RanOnResolvable(c)
          /\ not_pdf_hrefs(Val(body[c])) # <<>>
          /\ Head(not_pdf_hrefs(Val(body[c]))) = Val(DetailsAnchor.href) )
        => /\ Len(Requests(c, "parse_conference_proceedings")) = 1
           /\ Requests(c, "parse_conference_proceedings")[1].url
                  = spider.BASE_PROCEEDINGS_URL \o <<"001">>

\* the language code of the source record, when it has a language element
LanguageCode(record) == extract_first(record.language)
Built == "build_conference_paper_item" \in DOMAIN fn_out
           /\ fn_out["build_conference_paper_item"].error = OK
BuiltRecord == Val(fn_out["build_conference_paper_item"].val).record

\* C5 (as stated): the language field of the conference paper record is
\* absent exactly when the language code of the source record is "en", a
\* record with no language element included.
C5_LanguageAbsentIffEn ==
    Built => ( "language" \notin DOMAIN BuiltRecord
               <=> LanguageCode(fn_in) = Some(<<"en">>) )

\* C5 (amended): the language field of the conference paper record is absent
\* exactly when the language code of the source record is "en" or the record
\* has no language element; any other code is carried through unchanged.
C5_LanguageAbsentIffEnOrMissing ==
    Built =>
        /\ "language" \notin DOMAIN BuiltRecord
               <=> LanguageCode(fn_in) \in {Some(<<"en">>), NONE}
        /\ "language" \in DOMAIN BuiltRecord
               => BuiltRecord["language"] = Val(LanguageCode(fn_in))

C5_Witness ==
    /\ Built
    /\ LanguageCode(fn_in) = NONE
    /\ "language" \notin DOMAIN BuiltRecord

C7_SiblingChainsAreStarted ==
    parsed =>
        \A c \in Chains :
            \/ Requests(c, "parse_conference_paper") # <<>>
            \/ (pc[c] = "aborted" /\ body[c] = NONE)

\* C8: the paper page request of a record goes to the base_conference_paper_url
\* given at construction followed by the identifier, and the proceedings page
\* request to the base_proceedings_url given at construction followed by the
\* proceedings id.
C8_FetchesUseConfiguredBaseUrls ==
    /\ parsed =>
           \A c \in Chains :
               ReachedByParse(c) =>
                   /\ Len(Requests(c, "parse_conference_paper")) = 1
                   /\ Requests(c, "parse_conference_paper")[1].url
                          = Format(spider.BASE_CONFERENCE_PAPER_URL,
                                   extract_first(source[c].identifier))
    /\ \A c \in Chains :
           \A i \in 1..Len(Requests(c, "parse_conference_proceedings")) :
               SubSeq(Requests(c, "parse_conference_proceedings")[i].url, 1,
                      Len(spider.BASE_PROCEEDINGS_URL))
                   = spider.BASE_PROCEEDINGS_URL

\* C9 (as stated): an empty paper page ends the chain with the empty-page
\* error of get_conference_proceedings_page_request, with no proceedings page
\* request, and with the conference paper record already emitted.
C9_EmptyPageAbortsAfterPaperRecord ==
    \A c \in Chains :
        body[c] = Some(<<>>) =>
            /\ err[c] = EmptyPaperPage
            /\ Requests(c, "parse_conference_proceedings") = <<>>
            /\ Len(Items(c, "conferencepaper")) = 1

\* C9 (amended): an empty paper page ends the chain in parse_conference_paper
\* with the pdf-link-not-found error, before any record is emitted and before
\* get_conference_proceedings_page_request is called: no proceedings page
\* request is issued and the empty-page check is not reached.
C9_EmptyPageAbortsBeforePaperRecord ==
    \A c \in Chains :
        body[c] = Some(<<>>) =>
            /\ err[c] = PdfUrlNotFound
            /\ pc[c] = "aborted"
            /\ Items(c, "conferencepaper") = <<>>
            /\ Requests(c, "parse_conference_proceedings") = <<>>
            /\ "html_record" \notin DOMAIN meta[c]

C9_Witness ==
    \E c \in Chains : body[c] = Some(<<>>) /\ pc[c] = "aborted"

\* something was extracted from the creator: a name or an affiliation
Extracted(creator) == creator.names # <<>> \/ creator.affiliations # <<>>

\* C10: _get_authors yields one entry per creator from which something was
\* extracted, in creator order, with raw_name defaulting to the empty string
\* and the affiliations in document order; a creator from which nothing was
\* extracted is left out.
C10_AuthorsOmitEmptyCreators ==
    "_get_authors" \in DOMAIN fn_out =>
        LET kept == SelectSeq(fn_in.creators, Extracted)
            authors == fn_out["_get_authors"]
        IN /\ Len(authors) = Len(kept)
           /\ \A i \in 1..Len(kept) :
                  /\ authors[i]["raw_name"]
                         = (IF kept[i].names = <<>> THEN <<>>
                            ELSE Head(kept[i].names))
                  /\ ("affiliations" \in DOMAIN authors[i])
                         <=> kept[i].affiliations # <<>>
                  /\ "affiliations" \in DOMAIN authors[i] =>
                         authors[i]["affiliations"]
                             = [k \in 1..Len(kept[i].affiliations) |->
                                   [value |-> kept[i].affiliations[k]]]

====
